---- MODULE Spec2Model ----
(***************************************************************************)
(* Model of claude_exporter's TreeBuilder (tree_builder.py) over the       *)
(* Message / MessageNode / ConversationTree / Branch models (models.py).   *)
(*                                                                         *)
(* A Message object is named by its uuid, and the uuid of a message is its *)
(* position in the input collection conversation.chat_messages (uuids are  *)
(* unique, so a uuid stands for the object).  Every list of Messages is a  *)
(* sequence of uuids.                                                      *)
(***************************************************************************)
EXTENDS Integers, Sequences, FiniteSets, TLC

\* ---------------------------------------------------------------- bounds
MaxMsgs == 3        \* messages in the general input collections
MaxIndex == 1       \* Message.index ranges over 0..MaxIndex
MaxTime == 1        \* Message.created_at ranges over 0..MaxTime
MaxBuilds == 2      \* build_tree calls on the same Message objects
MaxOthers == 3      \* messages besides the index-0 message in rooted inputs
MaxPathLen == 3     \* length of the paths given to _find_divergence_point
MaxCalls == 1       \* tool calls correlated to one message
MaxEntries == 1     \* messages with an entry in the correlation dictionary

\* Python's None (parent_uuid of a root message, the message of the null
\* root of an empty conversation, Branch.diverges_at_index of the main branch)
None == -1

VARIABLES
    messages,           \* conversation.chat_messages: uuid -> immutable fields
    children,           \* Message.children of every input Message
    pc,                 \* position in the code: unparsed, idle, for, walk,
                        \* lookup, done
    builds,             \* number of build_tree calls started
    tree,               \* the ConversationTree under construction / returned
    prev_tree,          \* the ConversationTree returned by the previous build
    orphaned_messages,  \* _find_orphaned_chains: local orphaned_messages
    processed,          \* _find_orphaned_chains: local processed
    chains,             \* _find_orphaned_chains: local chains
    i,                  \* _find_orphaned_chains: position of the for loop
    chain_root,         \* _find_orphaned_chains: local chain_root
    branch_objects,     \* result of the last extract_branch_objects(tree)
    text,               \* Message.text of every input Message
    correlations,       \* inject_tool_logs: message uuid -> its tool calls
    json,               \* the file JSONExporter.export has written
    loaded,             \* the ConversationTree inject_tool_logs has loaded
    data,               \* the raw chat_messages of the fetched conversation
    call,               \* arguments of a _find_divergence_point call
    diverges_at         \* result of that _find_divergence_point call

\* the state outside TreeBuilder and the Message objects
aux == <<correlations, json, loaded, data, call, diverges_at>>

vars == <<messages, children, pc, builds, tree, prev_tree, orphaned_messages,
          processed, chains, i, chain_root, branch_objects, text, aux>>

\* ------------------------------------------------------------ data model
Uuids == DOMAIN messages

Message(uuid, index, created_at, parent_uuid) ==
    [uuid |-> uuid, index |-> index, created_at |-> created_at,
     parent_uuid |-> parent_uuid]

MessageNode(message, node_children) ==
    [message |-> message, children |-> node_children]

\* ConversationTree.root = None
NullNode == MessageNode(None, <<>>)

ConversationTree(root, all_messages, branches, orphaned_chains) ==
    [root |-> root, all_messages |-> all_messages, branches |-> branches,
     orphaned_chains |-> orphaned_chains]

\* mutant: a Branch holds copies of the messages it is given, new objects
\* beyond the input objects
BranchCopied(msgs, branch_id, diverges_at_index, is_main) ==
    [messages |-> [k \in DOMAIN msgs |-> msgs[k] + Len(messages)],
     branch_id |-> branch_id,
     diverges_at_index |-> diverges_at_index, is_main |-> is_main]

\* Branch(messages=..., branch_id=..., diverges_at_index=..., is_main=...)
Branch(msgs, branch_id, diverges_at_index, is_main) ==
    [messages |-> msgs, branch_id |-> branch_id,
     diverges_at_index |-> diverges_at_index, is_main |-> is_main]

\* the API's null uuid 00000000-0000-4000-8000-000000000000, which the API
\* gives as parent_message_uuid of a root message; it names no message
NULL_UUID == 0

\* ------------------------------------------------------- pure operations
\* mutant: the parent id is taken as it comes
ConvertNullUuidKept(v) == v

\* Message.convert_null_uuid
ConvertNullUuid(v) ==
    IF v = None THEN None
    ELSE IF v = NULL_UUID THEN None
    ELSE v

\* position at which sorted() / list.sort() places x in the sorted list s:
\* after every element whose key is not greater (the sort is stable)
InsertByKey(s, x, key) ==
    LET k == Cardinality({j \in 1..Len(s) : key[s[j]] <= key[x]})
    IN  SubSeq(s, 1, k) \o <<x>> \o SubSeq(s, k + 1, Len(s))

RECURSIVE StableSort(_, _)
StableSort(s, key) ==
    IF s = <<>> THEN <<>>
    ELSE InsertByKey(StableSort(SubSeq(s, 1, Len(s) - 1), key), s[Len(s)], key)

CreatedAt == [u \in Uuids |-> messages[u].created_at]

\* mutant: the branch messages are ordered by creation time
IndexOfCreatedAt == [u \in Uuids |-> messages[u].created_at]

IndexOf == [u \in Uuids |-> messages[u].index]

\* mutant: line 36 without the sort, the messages stay in input order
SortedMessagesInputOrder == [u \in 1..Cardinality(Uuids) |-> u]

\* build_tree line 36
SortedMessages == StableSort([u \in 1..Cardinality(Uuids) |-> u], CreatedAt)

\* mutant: only messages without parent id are grouped by index
MessagesByIndexParentless(sorted_messages, idx) ==
    SelectSeq(sorted_messages,
              LAMBDA u : messages[u].index = idx
                         /\ messages[u].parent_uuid = None)

\* build_tree lines 39-41: messages_by_index[idx]
MessagesByIndex(sorted_messages, idx) ==
    SelectSeq(sorted_messages, LAMBDA u : messages[u].index = idx)

\* mutant: a parent created after its child is not taken as its parent
RECURSIVE BuildParentChildRelationshipsChronological(_, _, _)
BuildParentChildRelationshipsChronological(sorted_messages, k, ch) ==
    IF k > Len(sorted_messages) THEN ch
    ELSE LET msg == sorted_messages[k]
             parent == messages[msg].parent_uuid
         IN  IF /\ parent # None /\ parent \in Uuids
                /\ \E j \in 1..k : sorted_messages[j] = parent
             THEN BuildParentChildRelationshipsChronological(sorted_messages,
                      k + 1, [ch EXCEPT ![parent] = Append(@, msg)])
             ELSE BuildParentChildRelationshipsChronological(sorted_messages,
                      k + 1, ch)

\* mutant: a message whose parent id names no message is recorded as a
\* child of the message created just before it
RECURSIVE BuildParentChildRelationshipsAdopt(_, _, _)
BuildParentChildRelationshipsAdopt(sorted_messages, k, ch) ==
    IF k > Len(sorted_messages) THEN ch
    ELSE LET msg == sorted_messages[k]
             parent == messages[msg].parent_uuid
         IN  IF parent # None /\ parent \in Uuids
             THEN BuildParentChildRelationshipsAdopt(sorted_messages, k + 1,
                      [ch EXCEPT ![parent] = Append(@, msg)])
             ELSE IF parent # None /\ k > 1
             THEN BuildParentChildRelationshipsAdopt(sorted_messages, k + 1,
                      [ch EXCEPT ![sorted_messages[k - 1]] = Append(@, msg)])
             ELSE BuildParentChildRelationshipsAdopt(sorted_messages, k + 1, ch)

\* mutant: a message without parent id at index N > 0 is recorded as a child
\* of the first message at index N - 1 (the relationships are inferred)
RECURSIVE BuildParentChildRelationshipsInfer(_, _, _)
BuildParentChildRelationshipsInfer(sorted_messages, k, ch) ==
    IF k > Len(sorted_messages) THEN ch
    ELSE LET msg == sorted_messages[k]
             parent == messages[msg].parent_uuid
             before == MessagesByIndex(sorted_messages,
                                       messages[msg].index - 1)
         IN  IF parent # None /\ parent \in Uuids
             THEN BuildParentChildRelationshipsInfer(sorted_messages, k + 1,
                      [ch EXCEPT ![parent] = Append(@, msg)])
             ELSE IF parent = None /\ before # <<>>
             THEN BuildParentChildRelationshipsInfer(sorted_messages, k + 1,
                      [ch EXCEPT ![before[1]] = Append(@, msg)])
             ELSE BuildParentChildRelationshipsInfer(sorted_messages, k + 1, ch)

\* _build_parent_child_relationships lines 90-94, from position k on
RECURSIVE BuildParentChildRelationships(_, _, _)
BuildParentChildRelationships(sorted_messages, k, ch) ==
    IF k > Len(sorted_messages) THEN ch
    ELSE LET msg == sorted_messages[k]
             parent == messages[msg].parent_uuid
         IN  IF parent # None /\ parent \in Uuids
             THEN BuildParentChildRelationships(sorted_messages, k + 1,
                      [ch EXCEPT ![parent] = Append(@, msg)])
             ELSE BuildParentChildRelationships(sorted_messages, k + 1, ch)

RECURSIVE BuildMessageNode(_, _, _)
RECURSIVE BuildChildNodes(_, _, _, _)
\* mutant: the visited set is scoped to the path from the root to the node
BuildMessageNodePathScoped(message, visited, ch) ==
    IF message \in visited
    THEN [node |-> MessageNode(message, <<>>), visited |-> visited]
    ELSE LET r == BuildChildNodes(ch[message], 1, visited \cup {message}, ch)
         IN  [node |-> MessageNode(message, r.nodes), visited |-> visited]

\* _build_message_node: the node built for message and the visited set it
\* leaves behind (visited is one set shared by the whole recursion)
BuildMessageNode(message, visited, ch) ==
    IF message \in visited
    THEN [node |-> MessageNode(message, <<>>), visited |-> visited]
    ELSE LET r == BuildChildNodes(ch[message], 1, visited \cup {message}, ch)
         IN  [node |-> MessageNode(message, r.nodes), visited |-> r.visited]

\* mutant: only the first child is expanded
BuildChildNodesFirstOnly(cs, k, visited, ch) ==
    IF k > Len(cs) \/ k > 1 THEN [nodes |-> <<>>, visited |-> visited]
    ELSE LET first == BuildMessageNode(cs[k], visited, ch)
             rest == BuildChildNodes(cs, k + 1, first.visited, ch)
         IN  [nodes |-> <<first.node>> \o rest.nodes, visited |-> rest.visited]

\* the loop of lines 116-119 from position k on
BuildChildNodes(cs, k, visited, ch) ==
    IF k > Len(cs) THEN [nodes |-> <<>>, visited |-> visited]
    ELSE LET first == BuildMessageNode(cs[k], visited, ch)
             rest == BuildChildNodes(cs, k + 1, first.visited, ch)
         IN  [nodes |-> <<first.node>> \o rest.nodes, visited |-> rest.visited]

RECURSIVE Traverse(_, _)
RECURSIVE TraverseChildren(_, _, _)
\* mutant: the path is recorded at every node, not only at childless ones
TraverseEveryNode(node, current_path) ==
    LET path == Append(current_path, node.message)
    IN  <<path>> \o TraverseChildren(node.children, 1, path)

\* _extract_branches: traverse(node, current_path)
Traverse(node, current_path) ==
    LET path == Append(current_path, node.message)
    IN  IF node.children = <<>> THEN <<path>>
        ELSE TraverseChildren(node.children, 1, path)

TraverseChildren(cs, k, path) ==
    IF k > Len(cs) THEN <<>>
    ELSE Traverse(cs[k], path) \o TraverseChildren(cs, k + 1, path)

ExtractBranches(root) == Traverse(root, <<>>)

\* _find_orphaned_chains lines 235-242: collect_tree_uuids
RECURSIVE CollectTreeUuids(_)
CollectTreeUuids(node) ==
    {node.message} \cup
    UNION {CollectTreeUuids(node.children[k]) : k \in 1..Len(node.children)}

\* mutant: line 245 without its filter
OrphanedMessagesUnfiltered(all_messages, messages_in_tree) == all_messages

\* _find_orphaned_chains line 245
OrphanedMessages(all_messages, messages_in_tree) ==
    SelectSeq(all_messages, LAMBDA u : u \notin messages_in_tree)

\* members of a list, as a set
Range(s) == {s[k] : k \in 1..Len(s)}

\* mutant: the chain goes on with the next orphan at hand, whatever its
\* parent is
RECURSIVE BuildOrphanedChainAnyNext(_, _, _, _)
BuildOrphanedChainAnyNext(current, orphaned, done, chain) ==
    IF current = None \/ current \in done
    THEN [chain |-> chain, processed |-> done]
    ELSE LET kids == SelectSeq(orphaned,
                         LAMBDA u : u \notin done /\ u # current)
         IN  BuildOrphanedChainAnyNext(IF kids # <<>> THEN kids[1] ELSE None,
                                       orphaned, done \cup {current},
                                       Append(chain, current))

\* mutant: the messages of the chain are not marked processed
RECURSIVE BuildOrphanedChainUnmarked(_, _, _, _)
BuildOrphanedChainUnmarked(current, orphaned, done, chain) ==
    IF current = None \/ current \in done
    THEN [chain |-> chain, processed |-> done]
    ELSE LET kids == SelectSeq(orphaned,
                         LAMBDA u : messages[u].parent_uuid = current)
         IN  BuildOrphanedChainUnmarked(IF kids # <<>> THEN kids[1] ELSE None,
                                        orphaned, done,
                                        Append(chain, current))

\* mutant: the chain is not followed below its first message
BuildOrphanedChainSingle(current, orphaned, done, chain) ==
    IF current = None \/ current \in done
    THEN [chain |-> chain, processed |-> done]
    ELSE [chain |-> Append(chain, current),
          processed |-> done \cup {current}]

\* _build_orphaned_chain: the chain and the processed set it leaves behind
RECURSIVE BuildOrphanedChain(_, _, _, _)
BuildOrphanedChain(current, orphaned, done, chain) ==
    IF current = None \/ current \in done
    THEN [chain |-> chain, processed |-> done]
    ELSE LET kids == SelectSeq(orphaned,
                         LAMBDA u : messages[u].parent_uuid = current)
         IN  BuildOrphanedChain(IF kids # <<>> THEN kids[1] ELSE None,
                                orphaned, done \cup {current},
                                Append(chain, current))

\* mutant: the end of the main branch is not taken as a difference
RECURSIVE FirstDifferenceWithinMain(_, _, _)
FirstDifferenceWithinMain(branch_path, main_branch, idx) ==
    IF idx > Len(branch_path) \/ idx > Len(main_branch) THEN None
    ELSE IF branch_path[idx] # main_branch[idx]
         THEN idx - 1
         ELSE FirstDifferenceWithinMain(branch_path, main_branch, idx + 1)

\* mutant: the position is reported 1-based
RECURSIVE FirstDifferenceOneBased(_, _, _)
FirstDifferenceOneBased(branch_path, main_branch, idx) ==
    IF idx > Len(branch_path) THEN None
    ELSE IF idx > Len(main_branch) \/ branch_path[idx] # main_branch[idx]
         THEN idx
         ELSE FirstDifferenceOneBased(branch_path, main_branch, idx + 1)

\* _find_divergence_point lines 210-214, from 1-based position idx on
RECURSIVE FirstDifference(_, _, _)
FirstDifference(branch_path, main_branch, idx) ==
    IF idx > Len(branch_path) THEN None
    ELSE IF idx > Len(main_branch) \/ branch_path[idx] # main_branch[idx]
         THEN idx - 1
         ELSE FirstDifference(branch_path, main_branch, idx + 1)

\* _find_divergence_point
FindDivergencePoint(branch_path, all_branches) ==
    IF all_branches = <<>> \/ branch_path = all_branches[1] THEN None
    ELSE FirstDifference(branch_path, all_branches[1], 1)

\* mutant: the branches are numbered from 0 and the last one is the main
\* branch
BranchObjectsZeroBased(t) ==
    IF t.root = NullNode THEN <<>>
    ELSE [idx \in 1..Len(t.branches) |->
            LET branch_path == t.branches[idx]
                msgs == SelectSeq(t.all_messages,
                            LAMBDA u : u \in Range(branch_path))
            IN  Branch(StableSort(msgs, IndexOf), <<"branch-", idx - 1>>,
                       FindDivergencePoint(branch_path, t.branches),
                       idx = Len(t.branches))]

\* extract_branch_objects(tree) lines 162-188
BranchObjects(t) ==
    IF t.root = NullNode THEN <<>>
    ELSE [idx \in 1..Len(t.branches) |->
            LET branch_path == t.branches[idx]
                msgs == SelectSeq(t.all_messages,
                            LAMBDA u : u \in Range(branch_path))
            IN  Branch(StableSort(msgs, IndexOf), <<"branch-", idx>>,
                       FindDivergencePoint(branch_path, t.branches),
                       idx = 1)]

\* inject_tool_calls_into_text, for tool_calls tool calls: each call
\* replaces one placeholder while one is left
InjectToolCallsIntoText(message_text, tool_calls) ==
    IF tool_calls = 0 THEN message_text
    ELSE LET replaced == IF message_text.placeholders < tool_calls
                         THEN message_text.placeholders ELSE tool_calls
         IN  [placeholders |-> message_text.placeholders - replaced,
              tool_blocks |-> message_text.tool_blocks + replaced]

\* inject_into_tree: traverse_and_inject(node), on the texts txt of the
\* Message objects; corr maps a message uuid to its number of tool calls
RECURSIVE TraverseAndInject(_, _, _)
RECURSIVE TraverseAndInjectChildren(_, _, _, _)
TraverseAndInject(node, corr, txt) ==
    LET msg_id == node.message
        injected == IF msg_id \in DOMAIN corr
                    THEN [txt EXCEPT ![msg_id] =
                             InjectToolCallsIntoText(@, corr[msg_id])]
                    ELSE txt
    IN  TraverseAndInjectChildren(node.children, 1, corr, injected)

TraverseAndInjectChildren(cs, k, corr, txt) ==
    IF k > Len(cs) THEN txt
    ELSE TraverseAndInjectChildren(cs, k + 1, corr,
                                   TraverseAndInject(cs[k], corr, txt))

\* the correlation dictionaries over the message ids ids: at most
\* MaxEntries entries of 1..MaxCalls tool calls each
Correlations(ids) ==
    UNION {[S -> 1..MaxCalls] :
              S \in {T \in SUBSET ids : Cardinality(T) <= MaxEntries}}

\* ------------------------------------------------------------ the inputs
\* parent_uuid after convert_null_uuid: None, the uuid of a message of the
\* collection, or a uuid that names no message of it (n + 1)
MessageRecords(n) ==
    {[u \in 1..n |-> Message(u, f[u].index, f[u].created_at, f[u].parent_uuid)] :
        f \in [1..n -> [index : 0..MaxIndex, created_at : 0..MaxTime,
                        parent_uuid : {None} \cup 1..(n + 1)]]}

NoTree == ConversationTree(NullNode, <<>>, <<>>, <<>>)

\* Message.text: what matters of it to inject_tool_calls_into_text is the
\* number of placeholder blocks and the number of tool blocks put in their
\* place
Text(placeholders, tool_blocks) ==
    [placeholders |-> placeholders, tool_blocks |-> tool_blocks]

\* a text with one placeholder block
PlainText == Text(1, 0)

\* JSONExporter's output (tree.model_dump(mode="json")) of a tree
Json(chat_messages, branches, orphaned_chains) ==
    [conversation |-> [chat_messages |-> chat_messages],
     branches |-> branches, orphaned_chains |-> orphaned_chains]

\* Message.model_dump(mode="json") of the Message object u with the text
\* txt: every field but children, which is excluded
MessageDump(u, txt) ==
    [uuid |-> messages[u].uuid, index |-> messages[u].index,
     created_at |-> messages[u].created_at,
     parent_uuid |-> messages[u].parent_uuid, text |-> txt[u]]

\* ConversationTree.model_dump(mode="json"): root and all_messages are
\* excluded; the conversation keeps chat_messages in input order
ModelDump(t, txt) ==
    Json([u \in 1..Len(messages) |-> MessageDump(u, txt)],
         t.branches,
         [k \in 1..Len(t.orphaned_chains) |->
             [m \in 1..Len(t.orphaned_chains[k]) |->
                 MessageDump(t.orphaned_chains[k][m], txt)]])

\* ConversationTree.model_validate(conv_data): root and all_messages are not
\* in the data and take their defaults; a loaded Message is named by its
\* uuid
ModelValidateTree(conv_data) ==
    ConversationTree(NullNode, <<>>, conv_data.branches,
        [k \in 1..Len(conv_data.orphaned_chains) |->
            [m \in 1..Len(conv_data.orphaned_chains[k]) |->
                conv_data.orphaned_chains[k][m].uuid]])

\* nothing is exported, loaded or correlated yet; d is the raw data and c
\* the pending _find_divergence_point call
AuxInitWith(d, c) ==
    /\ correlations = <<>>
    /\ json = Json(<<>>, <<>>, <<>>)
    /\ loaded = NoTree
    /\ data = d
    /\ call = c
    /\ diverges_at = None

NoCall == [branch_path |-> <<>>, all_branches |-> <<>>]

AuxInit == AuxInitWith(<<>>, NoCall)

\* the TreeBuilder over the messages msgs, before any build
BuilderInit(msgs) ==
    /\ messages = msgs
    /\ children = [u \in DOMAIN msgs |-> <<>>]
    /\ pc = "idle"
    /\ builds = 0
    /\ tree = NoTree
    /\ prev_tree = NoTree
    /\ orphaned_messages = <<>>
    /\ processed = {}
    /\ chains = <<>>
    /\ i = 0
    /\ chain_root = None
    /\ branch_objects = <<>>

\* the state right after Conversation.model_validate and TreeBuilder(...):
\* every Message has its own empty children list
InitWith(msgs) ==
    /\ BuilderInit(msgs)
    /\ text = [u \in DOMAIN msgs |-> PlainText]
    /\ AuxInit

Init == \E n \in 0..MaxMsgs : \E msgs \in MessageRecords(n) : InitWith(msgs)

\* rooted collections: one message at index 0 created first, followed by
\* MaxOthers messages at later indices whose parents are arbitrary
RootedRecords ==
    LET n == MaxOthers + 1
    IN  {[u \in 1..n |->
            IF u = 1 THEN Message(1, 0, 0, None)
            ELSE Message(u, f[u].index, f[u].created_at, f[u].parent_uuid)] :
         f \in [2..n -> [index : 1..MaxIndex, created_at : 0..MaxTime,
                         parent_uuid : {None} \cup 1..(n + 1)]]}

InitRooted == \E msgs \in RootedRecords : InitWith(msgs)

\* the collections of the spec's Example A, in the order m0, m1a, m2, m1b:
\* indices 0, 1, 2, 1; m1a and m1b created at different times; carried is
\* the set of messages whose parent reference is present in the data
ExampleARecords ==
    {[u \in 1..4 |->
        Message(u, <<0, 1, 2, 1>>[u], t[u],
                IF u \in carried THEN <<None, 1, 2, 1>>[u] ELSE None)] :
     t \in {x \in [1..4 -> 0..(MaxTime + 1)] : x[2] # x[4]},
     carried \in SUBSET {2, 3, 4}}

InitExampleA == \E msgs \in ExampleARecords : InitWith(msgs)

\* the id paths _find_divergence_point is given: non-empty sequences of
\* message uuids
IdPaths == UNION {[1..n -> 1..MaxMsgs] : n \in 1..MaxPathLen}

\* a call _find_divergence_point(branch_path, [main, branch_path])
InitDivergence ==
    /\ BuilderInit(<<>>)
    /\ text = <<>>
    /\ \E main \in IdPaths : \E branch_path \in IdPaths :
           AuxInitWith(<<>>, [branch_path |-> branch_path,
                             all_branches |-> <<main, branch_path>>])

\* chat_messages as the API gives them, for the rooted collections: a
\* parent_message_uuid is absent, the null uuid, the uuid of a message of
\* the collection or a uuid that names none of them
RawRootedData ==
    LET n == MaxOthers + 1
    IN  {[u \in 1..n |->
            IF u = 1 THEN [index |-> 0, created_at |-> 0,
                           parent_message_uuid |-> r]
            ELSE f[u]] :
         r \in {None, NULL_UUID},
         f \in [2..n -> [index : 1..MaxIndex, created_at : 0..MaxTime,
                         parent_message_uuid :
                             {None, NULL_UUID} \cup 1..(n + 1)]]}

\* the raw data is read, nothing is parsed yet
InitRaw ==
    /\ messages = <<>>
    /\ children = <<>>
    /\ pc = "unparsed"
    /\ builds = 0
    /\ tree = NoTree
    /\ prev_tree = NoTree
    /\ orphaned_messages = <<>>
    /\ processed = {}
    /\ chains = <<>>
    /\ i = 0
    /\ chain_root = None
    /\ branch_objects = <<>>
    /\ text = <<>>
    /\ \E d \in RawRootedData : AuxInitWith(d, NoCall)

\* the state before the conversation data is parsed
InitUnparsed ==
    /\ messages = <<>>
    /\ children = <<>>
    /\ pc = "unparsed"
    /\ builds = 0
    /\ tree = NoTree
    /\ prev_tree = NoTree
    /\ orphaned_messages = <<>>
    /\ processed = {}
    /\ chains = <<>>
    /\ i = 0
    /\ chain_root = None
    /\ branch_objects = <<>>
    /\ text = <<>>
    /\ AuxInit

\* -------------------------------------------------------------- actions
\* Conversation.model_validate(data) followed by TreeBuilder(conversation):
\* the messages are parsed, each with its own empty children list
ModelValidate ==
    /\ pc = "unparsed"
    /\ \E n \in 0..MaxMsgs : \E msgs \in MessageRecords(n) :
           /\ messages' = msgs
           /\ children' = [u \in DOMAIN msgs |-> <<>>]
           /\ text' = [u \in DOMAIN msgs |-> PlainText]
    /\ pc' = "idle"
    /\ UNCHANGED <<builds, tree, prev_tree, orphaned_messages, processed,
                   chains, i, chain_root, branch_objects, aux>>

\* Conversation.model_validate(data) on the raw data in hand: every
\* parent_message_uuid goes through convert_null_uuid
ModelValidateData ==
    /\ pc = "unparsed"
    /\ data # <<>>
    /\ messages' = [u \in DOMAIN data |->
                       Message(u, data[u].index, data[u].created_at,
                               ConvertNullUuid(data[u].parent_message_uuid))]
    /\ children' = [u \in DOMAIN data |-> <<>>]
    /\ text' = [u \in DOMAIN data |-> PlainText]
    /\ pc' = "idle"
    /\ UNCHANGED <<builds, tree, prev_tree, orphaned_messages, processed,
                   chains, i, chain_root, branch_objects, aux>>

\* the locals of _find_orphaned_chains are dead once it has returned
ResetLocals ==
    /\ orphaned_messages' = <<>>
    /\ processed' = {}
    /\ chains' = <<>>
    /\ i' = 0
    /\ chain_root' = None

\* a caller starts build_tree again: directly, through a second TreeBuilder
\* over the same Conversation, or through extract_branch_objects(None)
Again == pc = "done" /\ builds < MaxBuilds

\* the first build_tree call on freshly parsed messages
FirstBuild == pc = "idle" /\ builds = 0

\* mutant: the empty collection gives a tree with one empty branch path
ReturnEmptyTreeOnePath ==
    /\ pc' = "done"
    /\ builds' = builds + 1
    /\ prev_tree' = tree
    /\ tree' = ConversationTree(NullNode, <<>>, <<(<<>>)>>, <<>>)
    /\ ResetLocals
    /\ UNCHANGED <<text, aux, messages, children, branch_objects>>

\* build_tree lines 27-33: the empty collection
ReturnEmptyTree ==
    /\ pc' = "done"
    /\ builds' = builds + 1
    /\ prev_tree' = tree
    /\ tree' = ConversationTree(NullNode, <<>>, <<>>, <<>>)
    /\ ResetLocals
    /\ UNCHANGED <<text, aux, messages, children, branch_objects>>

\* build_tree lines 35-61 up to the for loop of _find_orphaned_chains
\* (lines 234-253); with no orphan it returns at once (lines 247-248, 63-69)
BuildAndCollect ==
    /\ LET sorted_messages == SortedMessages
           ch == BuildParentChildRelationships(sorted_messages, 1, children)
           root_candidates == MessagesByIndex(sorted_messages, 0)
           root_message == IF root_candidates = <<>> THEN sorted_messages[1]
                           ELSE root_candidates[1]
           root_node == BuildMessageNode(root_message, {}, ch).node
           branches == ExtractBranches(root_node)
           orphaned == OrphanedMessages(sorted_messages,
                                        CollectTreeUuids(root_node))
       IN  /\ children' = ch
           /\ tree' = ConversationTree(root_node, sorted_messages, branches,
                                       <<>>)
           /\ orphaned_messages' = orphaned
           /\ pc' = IF orphaned = <<>> THEN "done" ELSE "for"
           /\ i' = IF orphaned = <<>> THEN 0 ELSE 1
    /\ builds' = builds + 1
    /\ prev_tree' = tree
    /\ processed' = {}
    /\ chains' = <<>>
    /\ chain_root' = None
    /\ UNCHANGED <<text, aux, messages, branch_objects>>

\* build_tree on freshly parsed messages
BuildTree ==
    /\ FirstBuild
    /\ IF Uuids = {} THEN ReturnEmptyTree ELSE BuildAndCollect

\* build_tree once more on the same Message objects
Rebuild ==
    /\ Again
    /\ IF Uuids = {} THEN ReturnEmptyTree ELSE BuildAndCollect

\* lines 255-257: the next orphan is already processed
ForSkip ==
    /\ pc = "for"
    /\ i <= Len(orphaned_messages)
    /\ orphaned_messages[i] \in processed
    /\ i' = i + 1
    /\ UNCHANGED <<text, aux, messages, children, pc, builds, tree, prev_tree,
                   orphaned_messages, processed, chains, chain_root,
                   branch_objects>>

\* lines 255-260: the next orphan starts a walk to the root of its chain
ForNext ==
    /\ pc = "for"
    /\ i <= Len(orphaned_messages)
    /\ orphaned_messages[i] \notin processed
    /\ chain_root' = orphaned_messages[i]
    /\ pc' = "walk"
    /\ UNCHANGED <<text, aux, messages, children, builds, tree, prev_tree,
                   orphaned_messages, processed, chains, i, branch_objects>>

\* line 262: the orphan that chain_root.parent_uuid names, or None
OrphanParent(m) ==
    IF messages[m].parent_uuid \in Range(orphaned_messages)
    THEN messages[m].parent_uuid ELSE None

\* line 261: the while condition holds, the loop body is entered
WalkTest ==
    /\ pc = "walk"
    /\ messages[chain_root].parent_uuid # None
    /\ pc' = "lookup"
    /\ UNCHANGED <<text, aux, messages, children, builds, tree, prev_tree,
                   orphaned_messages, processed, chains, i, chain_root,
                   branch_objects>>

\* lines 262-264: the parent is an orphan, the walk moves up to it
WalkUp ==
    /\ pc = "lookup"
    /\ OrphanParent(chain_root) # None
    /\ chain_root' = OrphanParent(chain_root)
    /\ pc' = "walk"
    /\ UNCHANGED <<text, aux, messages, children, builds, tree, prev_tree,
                   orphaned_messages, processed, chains, i, branch_objects>>

\* lines 261, 265-272: the walk ends (the while condition fails, or the
\* break of line 266) and the chain is built from its root
WalkEnd ==
    /\ \/ pc = "walk" /\ messages[chain_root].parent_uuid = None
       \/ pc = "lookup" /\ OrphanParent(chain_root) = None
    /\ LET r == BuildOrphanedChain(chain_root, orphaned_messages, processed,
                                   <<>>)
       IN  IF chain_root \notin processed
           THEN /\ processed' = r.processed
                /\ chains' = IF r.chain # <<>> THEN Append(chains, r.chain)
                             ELSE chains
           ELSE UNCHANGED <<processed, chains>>
    /\ i' = i + 1
    /\ pc' = "for"
    /\ chain_root' = None
    /\ UNCHANGED <<text, aux, messages, children, builds, tree, prev_tree,
                   orphaned_messages, branch_objects>>

\* lines 274, 63-69: the for loop is over and build_tree returns the tree
ForReturn ==
    /\ pc = "for"
    /\ i > Len(orphaned_messages)
    /\ tree' = [tree EXCEPT !.orphaned_chains = chains]
    /\ pc' = "done"
    /\ ResetLocals
    /\ UNCHANGED <<text, aux, messages, children, builds, prev_tree, branch_objects>>

\* extract_branch_objects(tree) on the tree build_tree returned
ExtractBranchObjects ==
    /\ pc = "done"
    /\ branch_objects' = BranchObjects(tree)
    /\ UNCHANGED <<text, aux, messages, children, pc, builds, tree, prev_tree,
                   orphaned_messages, processed, chains, i, chain_root>>

\* ToolCallCorrelator.inject_into_tree(tree, correlations) on the tree
\* build_tree returned
InjectIntoTree ==
    /\ pc = "done"
    /\ builds >= 1
    /\ \E corr \in Correlations(Uuids) :
          /\ correlations' = corr
          /\ text' = IF tree.root = NullNode THEN text
                     ELSE TraverseAndInject(tree.root, corr, text)
    /\ pc' = "injected"
    /\ UNCHANGED <<messages, children, builds, tree, prev_tree,
                   orphaned_messages, processed, chains, i, chain_root,
                   branch_objects, json, loaded, data, call, diverges_at>>

\* JSONExporter.export(tree, output_path) on the tree build_tree returned
ExportJson ==
    /\ pc = "done"
    /\ builds >= 1
    /\ json' = ModelDump(tree, text)
    /\ pc' = "exported"
    /\ UNCHANGED <<messages, children, builds, tree, prev_tree,
                   orphaned_messages, processed, chains, i, chain_root,
                   branch_objects, text, correlations, loaded, data, call,
                   diverges_at>>

\* inject_tool_logs lines 302-309: the exported file is loaded as a
\* ConversationTree
LoadJson ==
    /\ pc = "exported"
    /\ loaded' = ModelValidateTree(json)
    /\ pc' = "loaded"
    /\ UNCHANGED <<messages, children, builds, tree, prev_tree,
                   orphaned_messages, processed, chains, i, chain_root,
                   branch_objects, text, correlations, json, data, call,
                   diverges_at>>

\* the call _find_divergence_point(branch_path, all_branches)
FindDivergence ==
    /\ pc = "idle"
    /\ call # NoCall
    /\ diverges_at' = FindDivergencePoint(call.branch_path, call.all_branches)
    /\ pc' = "done"
    /\ UNCHANGED <<messages, children, builds, tree, prev_tree,
                   orphaned_messages, processed, chains, i, chain_root,
                   branch_objects, text, correlations, json, loaded, data,
                   call>>

Next ==
    \/ BuildTree
    \/ ForSkip
    \/ ForNext
    \/ WalkTest
    \/ WalkUp
    \/ WalkEnd
    \/ ForReturn
    \/ ExtractBranchObjects

Spec == Init /\ [][Next]_vars

\* the same, with further builds over the same Message objects
NextRebuild ==
    \/ Next
    \/ Rebuild

SpecRebuild == Init /\ [][NextRebuild]_vars

\* one build over the rooted collections
SpecRooted == InitRooted /\ [][Next]_vars

\* one build over the collections of Example A
SpecExampleA == InitExampleA /\ [][Next]_vars

\* the raw data is parsed, then built once
NextRaw ==
    \/ ModelValidateData
    \/ Next

SpecRaw == InitRaw /\ [][NextRaw]_vars

\* a rooted collection is built once, then tool calls are injected
NextInject ==
    \/ Next
    \/ InjectIntoTree

SpecInject == InitRooted /\ [][NextInject]_vars

\* a rooted collection is built once, exported as JSON and loaded again
NextExport ==
    \/ Next
    \/ ExportJson
    \/ LoadJson

SpecExport == InitRooted /\ [][NextExport]_vars

\* _find_divergence_point alone, on arbitrary id paths
SpecDivergence == InitDivergence /\ [][FindDivergence]_vars

\* the run of the export command: the conversation is parsed, then built.
\* The code is sequential, so once build_tree is in the loops of
\* _find_orphaned_chains, a step that can be taken is taken
NextRun ==
    \/ ModelValidate
    \/ Next

FairSpec ==
    /\ InitUnparsed /\ [][NextRun]_vars
    /\ WF_vars(ForSkip) /\ WF_vars(ForNext) /\ WF_vars(WalkTest)
    /\ WF_vars(WalkUp) /\ WF_vars(WalkEnd) /\ WF_vars(ForReturn)

\* ------------------------------------------------ vocabulary of the claims
\* build_tree has returned its ConversationTree
Returned == pc = "done" /\ builds >= 1

\* the tree has been materialized (build_tree is past line 55)
Materialized == builds >= 1 /\ tree.root # NullNode

\* the uuids of the messages of the nodes of the tree rooted at tree.root
TreeUuids == CollectTreeUuids(tree.root)

\* the uuids of the messages of the orphan chains of the returned tree
ChainUuids ==
    UNION {Range(tree.orphaned_chains[k]) : k \in 1..Len(tree.orphaned_chains)}

\* the uuids on the branch paths of the returned tree
BranchUuids == UNION {Range(tree.branches[k]) : k \in 1..Len(tree.branches)}

\* number of nodes under node (node included) whose message is u
RECURSIVE NodeCount(_, _)
RECURSIVE SumNodeCount(_, _, _)
NodeCount(node, u) ==
    (IF node.message = u THEN 1 ELSE 0) + SumNodeCount(node.children, 1, u)

SumNodeCount(cs, k, u) ==
    IF k > Len(cs) THEN 0
    ELSE NodeCount(cs[k], u) + SumNodeCount(cs, k + 1, u)

\* u's parent_uuid names a message of the collection
HasParentIn(u) == messages[u].parent_uuid \in Uuids

\* ------------------------------------------------------------------ C1
\* C1: after build_tree on a non-empty collection every input message is
\* the message of a node of the tree or an element of an orphan chain.
C1_EveryMessageCovered ==
    (Returned /\ Uuids # {}) =>
        \A u \in Uuids : u \in TreeUuids \/ u \in ChainUuids

\* ------------------------------------------------------------------ C2
\* C2: build_tree terminates and returns a tree for every finite
\* collection, cycles among unreachable messages included.
C2_BuildTreeTerminates == (builds >= 1) ~> (pc = "done")

\* ------------------------------------------------------------------ C3
\* C3: when A's parent is B and B's parent is A and one of them is the
\* root, the materialized tree holds A in exactly one node and B in
\* exactly one node.
C3_CycleMembersOnce ==
    Materialized =>
        \A a, b \in Uuids :
            (/\ a # b
             /\ messages[a].parent_uuid = b
             /\ messages[b].parent_uuid = a
             /\ tree.root.message \in {a, b})
            => NodeCount(tree.root, a) = 1 /\ NodeCount(tree.root, b) = 1

\* ------------------------------------------------------------------ C4
\* C4: a second build over the same message collection returns the same
\* branch paths and the same orphan chains, in the same order.
C4_RebuildIdentical ==
    (pc = "done" /\ builds >= 2) =>
        /\ tree.branches = prev_tree.branches
        /\ tree.orphaned_chains = prev_tree.orphaned_chains

\* ------------------------------------------------------------------ C5
\* C5: build_tree leaves every input Message unchanged, its children list
\* included.
C5_MessagesUnchanged == [][children' = children /\ messages' = messages]_vars

\* ------------------------------------------------------------------ C6
\* C6: no message is both the message of a tree node (or on a branch path)
\* and an element of an orphan chain.
C6_TreeAndChainsDisjoint ==
    Returned =>
        /\ TreeUuids \cap ChainUuids = {}
        /\ BranchUuids \cap ChainUuids = {}

\* a returned tree with at least two nodes and an orphan chain
C6_Witness ==
    /\ Returned
    /\ tree.orphaned_chains # <<>>
    /\ Cardinality(TreeUuids) >= 2

\* ------------------------------------------------------------------ C7
\* u's explicit parent id names no message of the collection
Dangling(u) ==
    messages[u].parent_uuid # None /\ messages[u].parent_uuid \notin Uuids

\* u is the first element of an orphan chain and is on no branch path
HeadsOrphanChain(u) ==
    /\ \E k \in 1..Len(tree.orphaned_chains) : tree.orphaned_chains[k][1] = u
    /\ u \notin BranchUuids

\* C7 as stated: every message whose parent id names no message of the
\* collection heads an orphan chain and is on no branch path, whatever its
\* index and timestamp.
C7_EveryDanglingHeadsChain ==
    Returned => \A u \in Uuids : Dangling(u) => HeadsOrphanChain(u)

\* C7 as amended: every message whose parent id names no message of the
\* collection, and that is not chosen as the tree root, heads an orphan
\* chain and is on no branch path.
C7_NonRootDanglingHeadsChain ==
    Returned =>
        \A u \in Uuids :
            (Dangling(u) /\ u # tree.root.message) => HeadsOrphanChain(u)

\* a returned tree over a collection with a dangling message at index 0
\* that is not the root
C7_Witness ==
    /\ Returned
    /\ \E u \in Uuids :
           Dangling(u) /\ u # tree.root.message /\ messages[u].index = 0

\* ------------------------------------------------------------------ C8
\* no message carries a parent id that names a message of the collection
NoUsableParents == \A u \in Uuids : ~HasParentIn(u)

\* the parent the spec's inferred mode gives u: among the messages at
\* index N - 1, the latest created strictly before u, else the first
InferredParent(u) ==
    LET cands == MessagesByIndex(tree.all_messages, messages[u].index - 1)
        earlier == SelectSeq(cands, LAMBDA c : CreatedAt[c] < CreatedAt[u])
    IN  IF cands = <<>> THEN None
        ELSE IF earlier # <<>> THEN earlier[Len(earlier)] ELSE cands[1]

ExampleAResult ==
    /\ tree.branches = << <<1, 2, 3>>, <<1, 4>> >>
    /\ branch_objects = << Branch(<<1, 2, 3>>, <<"branch-", 1>>, None, TRUE),
                           Branch(<<1, 4>>, <<"branch-", 2>>, 1, FALSE) >>

\* extract_branch_objects has run on the returned tree of a non-empty
\* collection
Extracted == Returned /\ branch_objects # <<>>

ExampleAExplicit == \A u \in 2..4 : messages[u].parent_uuid # None

RECURSIVE NodesUnder(_)
NodesUnder(node) ==
    {node} \cup UNION {NodesUnder(node.children[k]) :
                          k \in 1..Len(node.children)}

\* the path from node down through the first child at every node
RECURSIVE FirstChildPath(_)
FirstChildPath(node) ==
    IF node.children = <<>> THEN <<node.message>>
    ELSE <<node.message>> \o FirstChildPath(node.children[1])

\* position of x in the list s
PositionIn(s, x) == CHOOSE k \in 1..Len(s) : s[k] = x

\* a comes before b in first-child-first depth-first order: where the two
\* paths part, a takes the earlier child
PathBefore(a, b) ==
    \E d \in 2..Len(a) :
        /\ d <= Len(b)
        /\ SubSeq(a, 1, d - 1) = SubSeq(b, 1, d - 1)
        /\ a[d] # b[d]
        /\ PositionIn(children[a[d - 1]], a[d])
               < PositionIn(children[a[d - 1]], b[d])

BranchesDepthFirst ==
    /\ tree.branches[1] = FirstChildPath(tree.root)
    /\ \A j, k \in 1..Len(tree.branches) :
           j < k => PathBefore(tree.branches[j], tree.branches[k])

\* C10 as stated: the children of every node are ordered by the position
\* of their messages in the input collection, and the branch paths are
\* enumerated first child first over that ordering.
C10_ChildrenInInputOrder ==
    (Returned /\ Uuids # {}) =>
        /\ \A node \in NodesUnder(tree.root) :
               \A j, k \in 1..Len(node.children) :
                   j < k => node.children[j].message < node.children[k].message
        /\ BranchesDepthFirst

\* x is created before y, or at the same time and given earlier in the input
CreatedBefore(x, y) ==
    \/ CreatedAt[x] < CreatedAt[y]
    \/ CreatedAt[x] = CreatedAt[y] /\ x < y

\* C10 as amended: in a tree built from freshly parsed messages the
\* children of every node are ordered by the creation timestamp of their
\* messages (equal timestamps by input position), and the branch paths are
\* enumerated first child first over that ordering.
C10_ChildrenInCreationOrder ==
    (Returned /\ Uuids # {}) =>
        /\ \A node \in NodesUnder(tree.root) :
               \A j, k \in 1..Len(node.children) :
                   j < k => CreatedBefore(node.children[j].message,
                                          node.children[k].message)
        /\ BranchesDepthFirst

\* a returned tree with a node whose first child was given later in the
\* input than its second child
C10_Witness ==
    /\ Returned
    /\ \E node \in NodesUnder(tree.root) :
           /\ Len(node.children) >= 2
           /\ node.children[1].message > node.children[2].message

\* ----------------------------------------------------------------- C11
\* branch path b agrees with the main path m on positions 0..k-1 and
\* differs from it at position k, where m may have ended
DiffersFirstAt(b, m, k) ==
    /\ k < Len(b)
    /\ k <= Len(m)
    /\ SubSeq(b, 1, k) = SubSeq(m, 1, k)
    /\ k = Len(m) \/ b[k + 1] # m[k + 1]

\* the _find_divergence_point call has returned
DivergenceReturned == pc = "done" /\ call # NoCall

\* C11: for a branch path that agrees with branch 0's path on positions
\* 0..k-1 and differs at position k (branch 0's path may end at length k),
\* _find_divergence_point returns exactly k.
C11_DivergenceIsFirstDifference ==
    DivergenceReturned =>
        \A k \in 0..Len(call.branch_path) :
            DiffersFirstAt(call.branch_path, call.all_branches[1], k)
                => diverges_at = k

\* a returned call on a branch path that continues past the end of the
\* main path
C11_Witness ==
    /\ DivergenceReturned
    /\ DiffersFirstAt(call.branch_path, call.all_branches[1],
                      Len(call.all_branches[1]))
    /\ diverges_at >= 1

\* ----------------------------------------------------------------- C12
\* the branch objects in hand are those of the tree build_tree returned last
ExtractedFromTree ==
    /\ Extracted
    /\ branch_objects = BranchObjects(tree)

\* C12: in the branches of a tree produced by build_tree, diverges_at_index
\* is null exactly for the branches whose path is identical to branch 0's
\* path; every branch with another path has a non-null diverges_at_index.
C12_NullOnlyForMainPath ==
    ExtractedFromTree =>
        \A k \in 1..Len(branch_objects) :
            branch_objects[k].diverges_at_index = None
                <=> tree.branches[k] = tree.branches[1]

\* ----------------------------------------------------------------- C13
\* C13: a message whose explicit parent id names an existing message is
\* recorded as a child of exactly that message and of no other, whatever
\* the sequence indices and creation timestamps are.
C13_ChildOfExplicitParentOnly ==
    Materialized =>
        \A u \in Uuids :
            HasParentIn(u) =>
                \A p \in Uuids :
                    u \in Range(children[p]) <=> p = messages[u].parent_uuid

\* a child recorded under a parent that was created after it and that is
\* not at the preceding index
C13_Witness ==
    /\ Materialized
    /\ \E u \in Uuids :
          /\ HasParentIn(u)
          /\ u \in Range(children[messages[u].parent_uuid])
          /\ CreatedAt[messages[u].parent_uuid] > CreatedAt[u]
          /\ IndexOf[messages[u].parent_uuid] # IndexOf[u] - 1

\* ----------------------------------------------------------------- C14
\* the messages the root is chosen from: those at index 0, or all messages
\* when none is at index 0
RootCandidates ==
    IF \E u \in Uuids : IndexOf[u] = 0
    THEN {u \in Uuids : IndexOf[u] = 0} ELSE Uuids

\* C14: the root is a message at index 0 whenever one exists (the
\* earliest-created of them), otherwise the earliest-created message; the
\* message's own parent reference plays no part in the choice.
C14_RootByIndexAndTime ==
    Materialized =>
        /\ tree.root.message \in RootCandidates
        /\ \A v \in RootCandidates :
              CreatedAt[tree.root.message] <= CreatedAt[v]

\* the root carries a parent reference to an existing message although
\* another message at index 0 carries none
C14_Witness ==
    /\ Materialized
    /\ IndexOf[tree.root.message] = 0
    /\ HasParentIn(tree.root.message)
    /\ \E v \in RootCandidates \ {tree.root.message} :
          messages[v].parent_uuid = None

\* ----------------------------------------------------------------- C15
\* the orphans: the messages of the collection that are in no tree node
Orphans == Uuids \ TreeUuids

\* C15: every orphan chain is maximal: the parent of its first message is
\* not an orphan, and no orphan has the chain's last message as its parent.
C15_ChainsMaximal ==
    Returned =>
        \A k \in 1..Len(tree.orphaned_chains) :
            LET chain == tree.orphaned_chains[k]
            IN  /\ messages[chain[1]].parent_uuid \notin Orphans
                /\ \A o \in Orphans :
                      messages[o].parent_uuid # chain[Len(chain)]

\* a returned chain of two or more orphans whose first message carries a
\* parent id
C15_Witness ==
    /\ Returned
    /\ \E k \in 1..Len(tree.orphaned_chains) :
          /\ Len(tree.orphaned_chains[k]) >= 2
          /\ messages[tree.orphaned_chains[k][1]].parent_uuid # None

\* ----------------------------------------------------------------- C20
\* C20: for every branch, Branch.messages holds exactly the messages whose
\* id is on the branch's id path, each once, in non-decreasing order of
\* sequence index (not of creation timestamp, not of discovery).
C20_BranchMessagesByIndex ==
    ExtractedFromTree =>
        \A k \in 1..Len(branch_objects) :
            LET msgs == branch_objects[k].messages
            IN  /\ Range(msgs) = Range(tree.branches[k])
                /\ \A a, b \in 1..Len(msgs) :
                      a < b => /\ msgs[a] # msgs[b]
                               /\ messages[msgs[a]].index
                                    <= messages[msgs[b]].index

\* a branch whose messages are not in the order of their creation, nor in
\* the order of its path
C20_Witness ==
    /\ ExtractedFromTree
    /\ \E k \in 1..Len(branch_objects) :
          /\ \E a, b \in 1..Len(branch_objects[k].messages) :
                /\ a < b
                /\ CreatedAt[branch_objects[k].messages[a]]
                      > CreatedAt[branch_objects[k].messages[b]]
          /\ branch_objects[k].messages # tree.branches[k]

\* ----------------------------------------------------------------- C18
\* C18: the JSON writer serializes the whole tree: loading the written JSON
\* as a ConversationTree gives back the same root node, full sorted message
\* list, branch paths and orphan chains, so that inject-tool-logs on the
\* export of a non-empty conversation finds tree.root and tree.all_messages
\* non-empty.
C18_ReloadGivesTreeBack ==
    (pc = "loaded" /\ Uuids # {}) =>
        /\ loaded.root = tree.root
        /\ loaded.all_messages = tree.all_messages
        /\ loaded.branches = tree.branches
        /\ loaded.orphaned_chains = tree.orphaned_chains
        /\ loaded.root # NullNode
        /\ loaded.all_messages # <<>>

\* ----------------------------------------------------------------- C19
\* the raw parent id of message u is the null uuid
RawParentIsNull(u) ==
    u \in DOMAIN data /\ data[u].parent_message_uuid = NULL_UUID

\* C19: a message whose raw parent id is the null uuid is handled by every
\* graph step like a message without parent: its parent_uuid is None, it is
\* in no message's children, and the upward walk of the orphan collector
\* stops at it without looking a parent up.
C19_NullUuidIsNoParent ==
    \A u \in Uuids :
        RawParentIsNull(u) =>
            /\ messages[u].parent_uuid = None
            /\ \A p \in Uuids : u \notin Range(children[p])
            /\ ~(pc = "lookup" /\ chain_root = u)

\* a returned orphan chain of two or more messages headed by a message
\* whose raw parent id is the null uuid: the walk from its child stopped
\* at it
C19_Witness ==
    /\ Returned
    /\ \E k \in 1..Len(tree.orphaned_chains) :
          /\ Len(tree.orphaned_chains[k]) >= 2
          /\ RawParentIsNull(tree.orphaned_chains[k][1])

\* ----------------------------------------------------------------- C16
\* the Message objects referred to by the nodes of the tree, by
\* tree.all_messages, by the orphan chains and by the branch objects
MessageReferences ==
    (IF tree.root = NullNode THEN {} ELSE TreeUuids)
    \cup Range(tree.all_messages)
    \cup ChainUuids
    \cup UNION {Range(branch_objects[k].messages) :
                   k \in 1..Len(branch_objects)}

Injected == pc = "injected"

\* the text of message u has been rewritten: a tool block stands where a
\* placeholder stood
Rewritten(u) == text[u].tool_blocks >= 1

\* C17: inject_into_tree rewrites the text of every message that has a
\* correlation entry, wherever it sits in the tree: in a tree node or in an
\* orphan chain.
C17_EveryCorrelatedRewritten ==
    Injected =>
        \A u \in DOMAIN correlations :
            u \in TreeUuids \cup ChainUuids => Rewritten(u)

\* ----------------------------------------------------------------- C21
\* C21: extract_branch_objects returns one Branch per entry of
\* tree.branches, in the same order; the branch at 0-based rank i has
\* branch_id "branch-<i+1>", and is_main is true for rank 0 only.
C21_OneBranchPerPath ==
    Extracted =>
        /\ Len(branch_objects) = Len(tree.branches)
        /\ \A k \in 1..Len(branch_objects) :
              /\ Range(branch_objects[k].messages) = Range(tree.branches[k])
              /\ branch_objects[k].branch_id = <<"branch-", k>>
              /\ branch_objects[k].is_main <=> k = 1

\* three branches over different messages have been extracted
C21_Witness ==
    /\ Extracted
    /\ Len(branch_objects) >= 3
    /\ Range(tree.branches[1]) # Range(tree.branches[2])
    /\ Range(tree.branches[2]) # Range(tree.branches[3])

\* ----------------------------------------------------------------- C22
\* C22: an empty message collection is not an error: build_tree returns
\* root = null, branches = [] and orphaned_chains = [], and
\* extract_branch_objects returns [].
C22_EmptyCollectionEmptyTree ==
    (Returned /\ Uuids = {}) =>
        /\ tree.root = NullNode
        /\ tree.branches = <<>>
        /\ tree.orphaned_chains = <<>>
        /\ branch_objects = <<>>
        /\ BranchObjects(tree) = <<>>

\* build_tree has returned on the empty collection
C22_Witness ==
    /\ Returned
    /\ Uuids = {}
    /\ tree.all_messages = <<>>

\* ----------------------------------------------------------------- C23
\* C23: a conversation of a single message at index 0 yields exactly one
\* branch of length 1 with is_main = true and a null divergence index, and
\* no orphan chain.
C23_SingleMessageOneBranch ==
    (Extracted /\ Cardinality(Uuids) = 1 /\ messages[1].index = 0) =>
        /\ tree.branches = <<(<<1>>)>>
        /\ Len(branch_objects) = 1
        /\ branch_objects[1].messages = <<1>>
        /\ branch_objects[1].is_main
        /\ branch_objects[1].diverges_at_index = None
        /\ tree.orphaned_chains = <<>>

\* ----------------------------------------------------------------- C24
\* the orphans whose parent is o, in the order the orphan collector meets
\* them (the order of tree.all_messages)
OrphanChildren(o) ==
    SelectSeq(tree.all_messages,
              LAMBDA u : u \in Orphans /\ messages[u].parent_uuid = o)

\* b comes right after a in an orphan chain
FollowsInChain(a, b) ==
    \E k \in 1..Len(tree.orphaned_chains) :
        \E j \in 1..(Len(tree.orphaned_chains[k]) - 1) :
            /\ tree.orphaned_chains[k][j] = a
            /\ tree.orphaned_chains[k][j + 1] = b

\* C24: when an orphan has several orphan children, the first-discovered
\* child continues the orphan's chain and each other child is the first
\* element of an orphan chain of its own.
C24_SiblingOrphansHeadChains ==
    Returned =>
        \A o \in Orphans \cap ChainUuids :
            Len(OrphanChildren(o)) >= 2 =>
                /\ FollowsInChain(o, OrphanChildren(o)[1])
                /\ \A j \in 2..Len(OrphanChildren(o)) :
                      HeadsOrphanChain(OrphanChildren(o)[j])

\* ----------------------------------------------------------------- C25
\* number of nodes under node (node included) that have children and whose
\* message is u
RECURSIVE ExpandedCount(_, _)
RECURSIVE SumExpandedCount(_, _, _)
ExpandedCount(node, u) ==
    (IF node.message = u /\ node.children # <<>> THEN 1 ELSE 0)
    + SumExpandedCount(node.children, 1, u)

SumExpandedCount(cs, k, u) ==
    IF k > Len(cs) THEN 0
    ELSE ExpandedCount(cs[k], u) + SumExpandedCount(cs, k + 1, u)

\* total length of the children lists of the messages in S
RECURSIVE ChildrenTotal(_)
ChildrenTotal(S) ==
    IF S = {} THEN 0
    ELSE LET u == CHOOSE v \in S : TRUE
         IN  Len(children[u]) + ChildrenTotal(S \ {u})

\* number of nodes of the tree whose message is in S
RECURSIVE NodeTotal(_)
NodeTotal(S) ==
    IF S = {} THEN 0
    ELSE LET u == CHOOSE v \in S : TRUE
         IN  NodeCount(tree.root, u) + NodeTotal(S \ {u})

\* C25: materialization from the root terminates for every children
\* adjacency, cyclic or not, and expands each message id at most once: a
\* later occurrence of a visited id is a childless node, so the tree has
\* finitely many nodes (the root and one node per entry of the children
\* list of every message in the tree).
C25_EachIdExpandedOnce ==
    Materialized =>
        /\ \A u \in Uuids : ExpandedCount(tree.root, u) <= 1
        /\ NodeTotal(Uuids) = 1 + ChildrenTotal(TreeUuids)

\* a tree materialized over a cyclic adjacency: a message is in two nodes
\* and its parent is in the tree below it
C25_Witness ==
    /\ Materialized
    /\ \E u \in Uuids :
          /\ NodeCount(tree.root, u) >= 2
          /\ ExpandedCount(tree.root, u) = 1
          /\ messages[u].parent_uuid \in TreeUuids \ {u}

\* ----------------------------------------------------------------- C26
\* every childless node under node whose message has recorded children
\* carries the message of one of its ancestors
RECURSIVE UnexpandedOnlyBelowItself(_, _)
UnexpandedOnlyBelowItself(node, ancestors) ==
    /\ (node.children = <<>> /\ children[node.message] # <<>>)
           => node.message \in ancestors
    /\ \A k \in 1..Len(node.children) :
          UnexpandedOnlyBelowItself(node.children[k],
                                    ancestors \cup {node.message})

\* C26: during materialization a node is left unexpanded (childless
\* although its message has recorded children) only when its message id
\* occurs among the node's own ancestors on the path from the root; an id
\* seen only on another path never stops expansion.
C26_VisitedScopedToPath ==
    Materialized => UnexpandedOnlyBelowItself(tree.root, {})

\* ----------------------------------------------------------------- C27
\* C27: within every orphan chain each message after the first has the
\* message immediately before it as its parent: the chain is one
\* parent-to-child path from the chain root to its terminal descendant.
C27_ChainIsParentChildPath ==
    Returned =>
        \A k \in 1..Len(tree.orphaned_chains) :
            \A j \in 2..Len(tree.orphaned_chains[k]) :
                messages[tree.orphaned_chains[k][j]].parent_uuid
                    = tree.orphaned_chains[k][j - 1]

\* a returned chain of three orphans
C27_Witness ==
    /\ Returned
    /\ \E k \in 1..Len(tree.orphaned_chains) :
          Len(tree.orphaned_chains[k]) >= 3

\* ----------------------------------------------------------------- C28
\* the positions (chain, place) of the orphan chains
ChainPlaces ==
    UNION {{<<k, j>> : j \in 1..Len(tree.orphaned_chains[k])} :
              k \in 1..Len(tree.orphaned_chains)}

\* C28: no message occurs in more than one orphan chain, nor more than once
\* within one chain, and no chain of tree.orphaned_chains is empty.
C28_ChainsDisjointNonEmpty ==
    Returned =>
        /\ \A k \in 1..Len(tree.orphaned_chains) :
              tree.orphaned_chains[k] # <<>>
        /\ \A p, q \in ChainPlaces :
              p # q => tree.orphaned_chains[p[1]][p[2]]
                          # tree.orphaned_chains[q[1]][q[2]]

\* two chains have been returned, one of them of two or more messages
C28_Witness ==
    /\ Returned
    /\ Len(tree.orphaned_chains) >= 2
    /\ \E k \in 1..Len(tree.orphaned_chains) :
          Len(tree.orphaned_chains[k]) >= 2

\* ----------------------------------------------------------------- C29
\* number of childless nodes under node, node included
RECURSIVE LeafCount(_)
RECURSIVE SumLeafCount(_, _)
LeafCount(node) ==
    IF node.children = <<>> THEN 1 ELSE SumLeafCount(node.children, 1)

SumLeafCount(cs, k) ==
    IF k > Len(cs) THEN 0 ELSE LeafCount(cs[k]) + SumLeafCount(cs, k + 1)

\* from position d on, path lists the ids from node down to a childless
\* node
RECURSIVE LeadsToLeaf(_, _, _)
LeadsToLeaf(node, path, d) ==
    /\ d <= Len(path)
    /\ path[d] = node.message
    /\ IF d = Len(path) THEN node.children = <<>>
       ELSE \E k \in 1..Len(node.children) :
               LeadsToLeaf(node.children[k], path, d + 1)

\* C29: tree.branches holds exactly one path per childless node of the
\* materialized tree, in left-to-right depth-first order; each path starts
\* with the root's id and lists the ids of the nodes from the root down to
\* that leaf; the ids on the paths are the ids the orphan collector takes
\* as reachable.
C29_OnePathPerLeaf ==
    (Returned /\ Uuids # {}) =>
        /\ Len(tree.branches) = LeafCount(tree.root)
        /\ \A k \in 1..Len(tree.branches) :
              /\ tree.branches[k][1] = tree.root.message
              /\ LeadsToLeaf(tree.root, tree.branches[k], 1)
        /\ BranchesDepthFirst
        /\ BranchUuids = CollectTreeUuids(tree.root)

\* a returned tree with two leaves at different depths
C29_Witness ==
    /\ Returned
    /\ Len(tree.branches) >= 2
    /\ Len(tree.branches[1]) # Len(tree.branches[2])

\* ----------------------------------------------------------------- C30
\* C30: in a tree built once from freshly parsed messages the reachable set
\* is closed under the child relation: a message whose parent id names a
\* message in the tree is in the tree, so the first message of every orphan
\* chain has no parent or a parent id that names no message of the
\* collection.
C30_TreeClosedUnderChildren ==
    (Returned /\ builds = 1 /\ Uuids # {}) =>
        /\ \A u \in Uuids :
              messages[u].parent_uuid \in TreeUuids => u \in TreeUuids
        /\ \A k \in 1..Len(tree.orphaned_chains) :
              \/ messages[tree.orphaned_chains[k][1]].parent_uuid = None
              \/ Dangling(tree.orphaned_chains[k][1])

\* a tree of two or more messages next to a chain whose first message has
\* a parent id that names no message
C30_Witness ==
    /\ Returned
    /\ builds = 1
    /\ Cardinality(TreeUuids) >= 2
    /\ \E k \in 1..Len(tree.orphaned_chains) :
          Dangling(tree.orphaned_chains[k][1])

====
